---- MODULE Spec2Model ----
(***************************************************************************)
(* Enrichment pipeline of c2_server.py: the two background coordinators    *)
(* (OSINTCollector.collect_victim_osint, ContactEnrichment.                *)
(* enrich_contact_info), the HTTP handlers that launch them, the sqlite    *)
(* tables they write, and the pure stages (correlate_accounts,             *)
(* calculate_risk_score).                                                    *)
(*                                                                         *)
(* Python values are modelled as records [t, s]: t is the Python type      *)
(* ("none", "str", "int") and s the characters of a str, one per element.  *)
(* Names the file takes from the server it is pasted into (app, request,   *)
(* jsonify, sqlite3, json, log_activity, DATABASE) are taken as present.   *)
(* Operators in snake_case compute what the method of that name returns;   *)
(* actions in CamelCase are the steps that run it (ApiStartOsint is the    *)
(* handler api_start_osint, EmailOsint the awaited call of email_osint).   *)
(***************************************************************************)
EXTENDS Integers, Sequences, FiniteSets, TLC

VARIABLES
    passes,               \* background runs, in launch order (one per executor.submit)
    responses,            \* HTTP responses of the two trigger endpoints, in call order
    osint_data,           \* rows of table osint_data, in rowid order
    email_enrichment,     \* rows of table email_enrichment
    phone_enrichment,     \* rows of table phone_enrichment
    contact_correlation,  \* rows of table contact_correlation
    additional_data_column, \* whether table email_enrichment has a column additional_data
    social_accounts,      \* argument of a call of correlate_accounts on its own
    correlations,         \* its return value
    called,               \* whether that call has returned
    score_results,        \* argument of a call of calculate_risk_score on its own
    score_assessment,     \* its return value
    scored                \* whether that call has returned

vars == <<passes, responses, osint_data, email_enrichment, phone_enrichment,
          contact_correlation, additional_data_column, social_accounts, correlations,
          called, score_results, score_assessment, scored>>

pipelineVars == <<passes, responses, osint_data, email_enrichment, phone_enrichment,
                  contact_correlation, additional_data_column>>

correlateVars == <<social_accounts, correlations, called>>

scoreVars == <<score_results, score_assessment, scored>>

pureVars == <<correlateVars, scoreVars>>

(***************************************************************************)
(* Bounds of the model.                                                    *)
(***************************************************************************)
MaxPasses == 2          \* trigger calls explored
MaxReachable == 1       \* platforms of platform_urls whose page answers a probe
MaxAccounts == 3        \* length of the account lists given to correlate_accounts
MaxBreaches == 4        \* breach records in the results given to calculate_risk_score
MaxScoredAccounts == 2  \* social accounts in the results given to calculate_risk_score

(***************************************************************************)
(* Python values and str methods.                                          *)
(***************************************************************************)
PyNone == [t |-> "none", s |-> <<>>]
PyInt == [t |-> "int", s |-> <<>>]
Missing == [t |-> "missing", s |-> <<>>]   \* a dict key that is absent
Str(chars) == [t |-> "str", s |-> chars]

\* Python truthiness of the values above (an int argument is taken non-zero).
Truthy(v) == (v.t = "str" /\ Len(v.s) > 0) \/ v.t = "int"
IsStr(v) == v.t = "str"

Lowers == <<"a","b","c","d","e","f","g","h","i","j","k","l","m",
            "n","o","p","q","r","s","t","u","v","w","x","y","z">>
Uppers == <<"A","B","C","D","E","F","G","H","I","J","K","L","M",
            "N","O","P","Q","R","S","T","U","V","W","X","Y","Z">>

IsLower(c) == \E i \in 1..26 : Lowers[i] = c
IsUpper(c) == \E i \in 1..26 : Uppers[i] = c
IsAlpha(c) == IsLower(c) \/ IsUpper(c)

LowerChar(c) == IF IsUpper(c) THEN Lowers[CHOOSE i \in 1..26 : Uppers[i] = c] ELSE c
UpperChar(c) == IF IsLower(c) THEN Uppers[CHOOSE i \in 1..26 : Lowers[i] = c] ELSE c

\* str.lower()
Lower(chars) == [i \in 1..Len(chars) |-> LowerChar(chars[i])]

\* str.title(): a letter is upper-cased after a non-letter, lower-cased after a letter
Title(chars) ==
    [i \in 1..Len(chars) |->
        IF i = 1 \/ ~IsAlpha(chars[i - 1]) THEN UpperChar(chars[i]) ELSE LowerChar(chars[i])]

\* c in chars
Contains(chars, c) == \E i \in 1..Len(chars) : chars[i] = c

\* chars.split(c)[0] and chars.split(c)[1], for chars that contain c
FirstIndex(chars, c) == CHOOSE i \in 1..Len(chars) : chars[i] = c /\ \A j \in 1..(i - 1) : chars[j] # c
SplitHead(chars, c) == IF Contains(chars, c) THEN SubSeq(chars, 1, FirstIndex(chars, c) - 1) ELSE chars
SplitSecond(chars, c) ==
    LET rest == SubSeq(chars, FirstIndex(chars, c) + 1, Len(chars))
    IN  SplitHead(rest, c)

\* re.sub(r'[@_.-]', '', chars)
RECURSIVE StripSeparators(_)
StripSeparators(chars) ==
    IF chars = <<>> THEN <<>>
    ELSE IF Head(chars) \in {"@", "_", ".", "-"} THEN StripSeparators(Tail(chars))
    ELSE <<Head(chars)>> \o StripSeparators(Tail(chars))

(***************************************************************************)
(* OSINTCollector: the sources.  An account's confidence is in hundredths. *)
(***************************************************************************)
\* check_disposable_email: the domain list of lines 537-540
disposable_domains ==
    { <<"1","0","m","i","n","u","t","e","m","a","i","l",".","c","o","m">>,
      <<"t","e","m","p","m","a","i","l",".","o","r","g">>,
      <<"g","u","e","r","r","i","l","l","a","m","a","i","l",".","c","o","m">>,
      <<"m","a","i","l","i","n","a","t","o","r",".","c","o","m">>,
      <<"t","h","r","o","w","a","w","a","y",".","e","m","a","i","l">>,
      <<"t","e","m","p","-","m","a","i","l",".","o","r","g">> }

EmailDomain(chars) == IF Contains(chars, "@") THEN SplitSecond(chars, "@") ELSE <<>>

check_disposable_email(chars) == Lower(EmailDomain(chars)) \in disposable_domains

\* '@' in email and '.' in email.split('@')[1]
check_email_deliverable(chars) == Contains(chars, "@") /\ Contains(SplitSecond(chars, "@"), ".")

\* check_email_breaches returns the same two simulated breaches for every email
SimulatedBreaches == 2

\* The intel dict of email_osint, by the columns store_email_enrichment writes.
EmailIntel(chars) ==
    [ email      |-> chars,
      provider   |-> EmailDomain(chars),
      disposable |-> check_disposable_email(chars),
      deliverable |-> check_email_deliverable(chars),
      breaches   |-> SimulatedBreaches ]

\* search_platform: fake_profiles has entries for LinkedIn and Twitter only.
search_platform(platform_name, identifier) ==
    LET local == SplitHead(identifier, "@")
    IN  IF platform_name = "LinkedIn"
        THEN << [ platform |-> "LinkedIn", username |-> Str(local),
                  display_name |-> Str(Title(local) \o <<" ","U","s","e","r">>),
                  confidence |-> 70 ] >>
        ELSE IF platform_name = "Twitter"
        THEN << [ platform |-> "Twitter", username |-> Str(<<"@">> \o local),
                  display_name |-> Str(local \o <<" ","<bird>">>),
                  confidence |-> 60 ] >>
        ELSE << >>

search_platforms == <<"LinkedIn", "Twitter", "Facebook", "Instagram", "GitHub", "Reddit">>

\* find_social_by_email: a non-str email raises while the list of search urls is
\* built (email.split), which the function's own handler turns into [].
RECURSIVE SearchAll(_, _)
SearchAll(names, identifier) ==
    IF names = <<>> THEN <<>>
    ELSE search_platform(Head(names), identifier) \o SearchAll(Tail(names), identifier)

find_social_by_email(email) ==
    IF IsStr(email) THEN SearchAll(search_platforms, email.s) ELSE <<>>

\* username_osint: the platforms probed, in the order of platform_urls.
platform_urls ==
    <<"Twitter", "Instagram", "GitHub", "Reddit", "TikTok", "YouTube",
      "Facebook", "LinkedIn", "Snapchat", "Pinterest", "Telegram", "Discord">>

Unknown == <<"U","n","k","n","o","w","n">>
JaneDoe == <<"J","a","n","e"," ","D","o","e">>

\* What one probe yields: "absent" (check_username_exists False or raising, or
\* scrape_basic_profile None), "unknown" (a profile whose display name falls
\* back to 'Unknown'), "named" (a profile with an extracted display name).
ProbeOutcomes == {"absent", "unknown", "named"}

\* The platforms whose page answers; every other probe yields "absent".
ReachablePlatforms == 1..MaxReachable

\* scrape_basic_profile leaving the display name empty when none is extracted.
scrape_basic_profile_unnamed(platform, username, outcome) ==
    [ platform |-> platform, username |-> username,
      display_name |-> Str(IF outcome = "named" THEN JaneDoe ELSE <<>>),
      confidence |-> 80 ]

scrape_basic_profile(platform, username, outcome) ==
    [ platform |-> platform, username |-> username,
      display_name |-> Str(IF outcome = "named" THEN JaneDoe ELSE Unknown),
      confidence |-> 80 ]

RECURSIVE ProbeFrom(_, _, _)
ProbeFrom(i, username, outcome) ==
    IF i > Len(platform_urls) THEN <<>>
    ELSE (IF i \in DOMAIN outcome /\ outcome[i] # "absent"
          THEN << scrape_basic_profile(platform_urls[i], username, outcome[i]) >>
          ELSE <<>>) \o ProbeFrom(i + 1, username, outcome)

username_osint(username, outcome) == ProbeFrom(1, username, outcome)

(***************************************************************************)
(* OSINTCollector.correlate_accounts.  Confidence is in hundredths.        *)
(***************************************************************************)
\* account.get(key, '') : an absent key reads as ''
GetOr(v) == IF v.t = "missing" THEN Str(<<>>) ELSE v

\* .lower() raises on a value that is not a str
CorrelateRaises(accounts) ==
    \E i \in 1..Len(accounts) :
        \/ ~IsStr(GetOr(accounts[i].username))
        \/ ~IsStr(GetOr(accounts[i].display_name))

\* The base username without the .lower() of line 429.
base_username_case_sensitive(account) == StripSeparators(GetOr(account.username).s)

base_username(account) == StripSeparators(Lower(GetOr(account.username).s))
display_name_key(account) == Lower(GetOr(account.display_name).s)

\* Keys of a dict filled in list order: first occurrences, in order.
RECURSIVE InsertionOrder(_)
InsertionOrder(keys) ==
    IF keys = <<>> THEN <<>>
    ELSE LET before == InsertionOrder(SubSeq(keys, 1, Len(keys) - 1))
             last == keys[Len(keys)]
         IN  IF \E i \in 1..Len(before) : before[i] = last THEN before ELSE Append(before, last)

\* The username groups without the group of the empty base username.
username_groups_nonempty(accounts) ==
    LET Keyed(a) == base_username(a) # <<>>
        keyed == SelectSeq(accounts, Keyed)
        keys == InsertionOrder([i \in 1..Len(keyed) |-> base_username(keyed[i])])
    IN  [k \in 1..Len(keys) |->
            LET Same(a) == base_username(a) = keys[k]
            IN  [key |-> keys[k], accounts |-> SelectSeq(keyed, Same)]]

\* Groups only neighbouring accounts (a groupby over the unsorted list).
RECURSIVE AdjacentRuns(_)
AdjacentRuns(accounts) ==
    IF accounts = <<>> THEN <<>>
    ELSE LET before == AdjacentRuns(SubSeq(accounts, 1, Len(accounts) - 1))
             last == accounts[Len(accounts)]
         IN  IF before # <<>> /\ before[Len(before)].key = base_username(last)
             THEN [before EXCEPT ![Len(before)].accounts = Append(@, last)]
             ELSE Append(before, [key |-> base_username(last), accounts |-> <<last>>])

username_groups_adjacent(accounts) == AdjacentRuns(accounts)

username_groups(accounts) ==
    LET keys == InsertionOrder([i \in 1..Len(accounts) |-> base_username(accounts[i])])
    IN  [k \in 1..Len(keys) |->
            LET Same(a) == base_username(a) = keys[k]
            IN  [key |-> keys[k], accounts |-> SelectSeq(accounts, Same)]]

\* The display-name groups with names of three characters admitted.
display_name_groups_three(accounts) ==
    LET Named(a) == Len(display_name_key(a)) > 2
        named == SelectSeq(accounts, Named)
        keys == InsertionOrder([i \in 1..Len(named) |-> display_name_key(named[i])])
    IN  [k \in 1..Len(keys) |->
            LET Same(a) == display_name_key(a) = keys[k]
            IN  [key |-> keys[k], accounts |-> SelectSeq(named, Same)]]

display_name_groups(accounts) ==
    LET Named(a) == Len(display_name_key(a)) > 3
        named == SelectSeq(accounts, Named)
        keys == InsertionOrder([i \in 1..Len(named) |-> display_name_key(named[i])])
    IN  [k \in 1..Len(keys) |->
            LET Same(a) == display_name_key(a) = keys[k]
            IN  [key |-> keys[k], accounts |-> SelectSeq(named, Same)]]

RECURSIVE ClustersOf(_, _, _)
ClustersOf(groups, type, confidence) ==
    IF groups = <<>> THEN <<>>
    ELSE (IF Len(Head(groups).accounts) > 1
          THEN << [ type |-> type, accounts |-> Head(groups).accounts,
                    confidence |-> confidence, description |-> Head(groups).key ] >>
          ELSE <<>>) \o ClustersOf(Tail(groups), type, confidence)

\* correlate_accounts reporting a group of accounts once: a display-name
\* cluster whose accounts a username cluster already holds is left out.
correlate_accounts_deduplicated(accounts) ==
    IF CorrelateRaises(accounts) THEN <<>>
    ELSE LET by_username == ClustersOf(username_groups(accounts), "username_similarity", 90)
             by_display_name == ClustersOf(display_name_groups(accounts), "display_name_match", 80)
             New(c) == \A k \in 1..Len(by_username) : by_username[k].accounts # c.accounts
         IN  by_username \o SelectSeq(by_display_name, New)

\* correlate_accounts passing over the accounts whose username or display
\* name is not a str and clustering the others.
correlate_accounts_skipping(accounts) ==
    LET Typed(a) == IsStr(GetOr(a.username)) /\ IsStr(GetOr(a.display_name))
        typed == SelectSeq(accounts, Typed)
    IN  ClustersOf(username_groups(typed), "username_similarity", 90)
        \o ClustersOf(display_name_groups(typed), "display_name_match", 80)

correlate_accounts(accounts) ==
    IF CorrelateRaises(accounts) THEN <<>>
    ELSE ClustersOf(username_groups(accounts), "username_similarity", 90)
         \o ClustersOf(display_name_groups(accounts), "display_name_match", 80)

(***************************************************************************)
(* ContactEnrichment: email analysis.                                      *)
(***************************************************************************)
Digits == {"0","1","2","3","4","5","6","7","8","9"}

\* word in chars
Substring(chars, word) ==
    \E i \in 1..(Len(chars) - Len(word) + 1) : SubSeq(chars, i, i + Len(word) - 1) = word

disposable_domains_advanced ==
    disposable_domains \cup
    { <<"g","e","t","n","a","d","a",".","c","o","m">>,
      <<"m","a","i","l","d","r","o","p",".","c","c">>,
      <<"y","o","p","m","a","i","l",".","c","o","m">>,
      <<"s","h","a","r","k","l","a","s","e","r","s",".","c","o","m">>,
      <<"3","3","m","a","i","l",".","c","o","m">>,
      <<"m","i","n","t","e","m","a","i","l",".","c","o","m">> }

suspicious_keywords ==
    { <<"t","e","m","p">>, <<"t","h","r","o","w">>, <<"f","a","k","e">>,
      <<"s","p","a","m">>, <<"t","r","a","s","h">>, <<"j","u","n","k">> }

\* re.search(r'\d{5,}', domain)
ManyNumbers(domain) ==
    \E i \in 1..(Len(domain) - 4) : \A j \in i..(i + 4) : domain[j] \in Digits

\* re.search(r'^[a-z]{1,3}\d+\.', domain)
ShortPrefixWithNumbers(domain) ==
    \E k \in 1..3 : \E n \in 1..Len(domain) :
        /\ k + n + 1 <= Len(domain)
        /\ \A j \in 1..k : IsLower(domain[j])
        /\ \A j \in (k + 1)..(k + n) : domain[j] \in Digits
        /\ domain[k + n + 1] = "."

check_disposable_email_advanced(chars) ==
    LET domain == Lower(EmailDomain(chars))
    IN  \/ domain \in disposable_domains_advanced
        \/ ManyNumbers(domain)
        \/ \E w \in suspicious_keywords : Substring(domain, w)
        \/ ShortPrefixWithNumbers(domain)

\* validate_email_comprehensive: validate_email() is the email_validator library
\* (syntax and, by default, a DNS lookup); `valid` is its verdict.
validate_email_comprehensive(chars, valid) ==
    [ is_valid |-> valid,
      is_disposable |-> valid /\ check_disposable_email_advanced(chars) ]

common_words ==
    { <<"a","d","m","i","n">>, <<"u","s","e","r">>, <<"t","e","s","t">>, <<"j","o","h","n">>,
      <<"j","a","n","e">>, <<"s","m","i","t","h">>, <<"e","m","a","i","l">>, <<"i","n","f","o">>,
      <<"c","o","n","t","a","c","t">>, <<"s","u","p","p","o","r","t">>, <<"m","a","i","l">>,
      <<"w","e","b">>, <<"s","i","t","e">> }

count_dictionary_words(text) == Cardinality({w \in common_words : Substring(Lower(text), w)})

\* calculate_string_entropy(username) > 4.0.  Shannon entropy is at most log2(len),
\* so it is at most 4.0 up to 16 characters; the local parts of the model are shorter.
EntropyAboveFour(username) == Len(username) > 16

\* email_security_analysis: the names of the checks that fire, in list order.
\* 'multiple_dots' tests whether the six characters \.{2,} occur in the
\* local part (a str `in` test, not a regular expression).
multiple_dots_literal == <<"\\", ".", "{", "2", ",", "}">>

suspicious_checks(username) ==
    << [name |-> "multiple_dots", fires |-> Substring(username, multiple_dots_literal)],
       [name |-> "all_numbers",   fires |-> Len(username) > 0 /\ \A i \in 1..Len(username) : username[i] \in Digits],
       [name |-> "very_long",     fires |-> Len(username) > 30],
       [name |-> "very_short",    fires |-> Len(username) < 3],
       [name |-> "random_chars",  fires |-> EntropyAboveFour(username) /\ count_dictionary_words(username) = 0] >>

email_security_analysis(chars) ==
    LET username == SplitHead(chars, "@")
        Fires(c) == c.fires
        fired == SelectSeq(suspicious_checks(username), Fires)
    IN  [ suspicious_patterns |-> [i \in 1..Len(fired) |-> fired[i].name] ]

\* A dict that is {} has present = FALSE; .get() on it yields the defaults below.
NoEmailData ==
    [ present |-> FALSE,
      email |-> <<>>,
      validation |-> [is_valid |-> FALSE, is_disposable |-> FALSE],
      security_analysis |-> [suspicious_patterns |-> <<>>] ]

\* deep_email_analysis; a non-str email raises in validate_email_comprehensive
\* (email.split in detect_email_typos) and the handler returns {}.
deep_email_analysis(email, valid) ==
    IF ~IsStr(email) THEN NoEmailData
    ELSE [ present |-> TRUE,
           email |-> email.s,
           validation |-> validate_email_comprehensive(email.s, valid),
           security_analysis |-> email_security_analysis(email.s) ]

(***************************************************************************)
(* ContactEnrichment: phone analysis.  risk_score is in hundredths.        *)
(***************************************************************************)
\* What the phonenumbers library says of a phone string.
NoLib == [parses |-> FALSE, is_valid |-> FALSE, number_type |-> "unknown",
          country |-> "", carrier |-> ""]

Phone(chars, lib) == [t |-> "str", s |-> chars, lib |-> lib]
NoPhone == [t |-> "none", s |-> <<>>, lib |-> NoLib]

validate_phone_comprehensive(phone) ==
    IF phone.lib.parses
    THEN [is_valid |-> phone.lib.is_valid, number_type |-> phone.lib.number_type]
    ELSE [is_valid |-> FALSE, number_type |-> "unknown"]

get_phone_geographic_info(phone) ==
    [country |-> IF phone.lib.parses THEN phone.lib.country ELSE ""]

\* carrier_name or 'Unknown' when the number parses; the initial '' when it does not
get_phone_carrier_info(phone) ==
    [carrier_name |-> IF ~phone.lib.parses THEN ""
                      ELSE IF phone.lib.carrier = "" THEN "Unknown" ELSE phone.lib.carrier]

Max(a, b) == IF a > b THEN a ELSE b
Min(a, b) == IF a < b THEN a ELSE b

\* assess_phone_risk without the max(0.0, ...) of line 1369: the trust
\* indicators are subtracted below zero.
assess_phone_risk_unfloored(analysis) ==
    LET raw ==
            (IF ~analysis.validation.is_valid THEN 30 ELSE 0)
            + (IF analysis.validation.number_type = "voip" THEN 20 ELSE 0)
            + (IF analysis.validation.number_type = "unknown" THEN 10 ELSE 0)
        trust ==
            (IF analysis.validation.number_type = "mobile" THEN 1 ELSE 0)
            + (IF analysis.carrier_info.carrier_name # "Unknown" THEN 1 ELSE 0)
            + (IF analysis.geographic_info.country # "" THEN 1 ELSE 0)
    IN  [ risk_score |-> Min(100, raw - trust * 10),
          risk_factors |-> <<>>, trust_indicators |-> <<>> ]

\* assess_phone_risk with each trust indicator worth 0.2 instead of the 0.1 of
\* line 1369.
assess_phone_risk_double_trust(analysis) ==
    LET raw ==
            (IF ~analysis.validation.is_valid THEN 30 ELSE 0)
            + (IF analysis.validation.number_type = "voip" THEN 20 ELSE 0)
            + (IF analysis.validation.number_type = "unknown" THEN 10 ELSE 0)
        trust_indicators ==
            (IF analysis.validation.number_type = "mobile" THEN <<"mobile_number">> ELSE <<>>)
            \o (IF analysis.carrier_info.carrier_name # "Unknown" THEN <<"known_carrier">> ELSE <<>>)
            \o (IF analysis.geographic_info.country # "" THEN <<"geographic_data">> ELSE <<>>)
    IN  [ risk_score |-> Min(100, Max(0, raw - Len(trust_indicators) * 20)),
          risk_factors |-> <<>>, trust_indicators |-> trust_indicators ]

\* assess_phone_risk with an invalid number worth 0.6 instead of the 0.3 of
\* line 1348.
assess_phone_risk_invalid_heavy(analysis) ==
    LET raw ==
            (IF ~analysis.validation.is_valid THEN 60 ELSE 0)
            + (IF analysis.validation.number_type = "voip" THEN 20 ELSE 0)
            + (IF analysis.validation.number_type = "unknown" THEN 10 ELSE 0)
        trust_indicators ==
            (IF analysis.validation.number_type = "mobile" THEN <<"mobile_number">> ELSE <<>>)
            \o (IF analysis.carrier_info.carrier_name # "Unknown" THEN <<"known_carrier">> ELSE <<>>)
            \o (IF analysis.geographic_info.country # "" THEN <<"geographic_data">> ELSE <<>>)
    IN  [ risk_score |-> Min(100, Max(0, raw - Len(trust_indicators) * 10)),
          risk_factors |-> <<>>, trust_indicators |-> trust_indicators ]

assess_phone_risk(analysis) ==
    LET risk_factors ==
            (IF ~analysis.validation.is_valid THEN <<"invalid_number">> ELSE <<>>)
            \o (IF analysis.validation.number_type = "voip" THEN <<"voip_number">> ELSE <<>>)
            \o (IF analysis.validation.number_type = "unknown" THEN <<"unknown_type">> ELSE <<>>)
        raw ==
            (IF ~analysis.validation.is_valid THEN 30 ELSE 0)
            + (IF analysis.validation.number_type = "voip" THEN 20 ELSE 0)
            + (IF analysis.validation.number_type = "unknown" THEN 10 ELSE 0)
        trust_indicators ==
            (IF analysis.validation.number_type = "mobile" THEN <<"mobile_number">> ELSE <<>>)
            \o (IF analysis.carrier_info.carrier_name # "Unknown" THEN <<"known_carrier">> ELSE <<>>)
            \o (IF analysis.geographic_info.country # "" THEN <<"geographic_data">> ELSE <<>>)
    IN  [ risk_score |-> Min(100, Max(0, raw - Len(trust_indicators) * 10)),
          risk_factors |-> risk_factors,
          trust_indicators |-> trust_indicators ]

NoPhoneData ==
    [ present |-> FALSE, original_number |-> <<>>,
      validation |-> [is_valid |-> FALSE, number_type |-> ""],
      geographic_info |-> [country |-> ""],
      carrier_info |-> [carrier_name |-> ""],
      risk_assessment |-> [risk_score |-> 0, risk_factors |-> <<>>, trust_indicators |-> <<>>] ]

deep_phone_analysis(phone) ==
    LET partial == [ validation |-> validate_phone_comprehensive(phone),
                     geographic_info |-> get_phone_geographic_info(phone),
                     carrier_info |-> get_phone_carrier_info(phone) ]
    IN  [ present |-> TRUE, original_number |-> phone.s,
          validation |-> partial.validation,
          geographic_info |-> partial.geographic_info,
          carrier_info |-> partial.carrier_info,
          risk_assessment |-> assess_phone_risk(partial) ]

(***************************************************************************)
(* ContactEnrichment.calculate_risk_score.  overall_score is in            *)
(* thousandths, the phone risk_score it reads in hundredths.               *)
(***************************************************************************)
NoRiskAssessment ==
    [overall_score |-> 0, risk_level |-> "low", factors |-> <<>>, recommendations |-> <<>>]

\* Lines 1523-1532: the risk level of a normalized score (thousandths).
determine_risk_level_inclusive(score) ==
    IF score <= 300 THEN "low" ELSE IF score <= 700 THEN "medium" ELSE "high"

determine_risk_level(score) ==
    IF score < 300 THEN "low" ELSE IF score < 700 THEN "medium" ELSE "high"

\* A score that is the mean of the signals present, each breach record
\* counting as one signal of weight zero.
calculate_risk_score_averaged(results) ==
    LET disposable == results.email_data.validation.is_disposable
        suspicious == results.email_data.security_analysis.suspicious_patterns # <<>>
        phone_risk == results.phone_data.risk_assessment.risk_score
        sum == (IF disposable THEN 300 ELSE 0) + (IF suspicious THEN 200 ELSE 0) + phone_risk * 5
        score == Min(1000, sum) \div (1 + results.breaches)
    IN  [ overall_score |-> score, risk_level |-> determine_risk_level(score),
          factors |-> <<>>, recommendations |-> <<>> ]

\* calculate_risk_score made to read the phone_enrichment table as well as its
\* argument: a score that depends on what earlier runs stored.
calculate_risk_score_stored(results) ==
    LET disposable == results.email_data.validation.is_disposable
        suspicious == results.email_data.security_analysis.suspicious_patterns # <<>>
        phone_risk == results.phone_data.risk_assessment.risk_score
        history == IF phone_enrichment # <<>> THEN 100 ELSE 0
        sum == (IF disposable THEN 300 ELSE 0) + (IF suspicious THEN 200 ELSE 0)
               + phone_risk * 5 + history
        score == Min(1000, sum)
    IN  [ overall_score |-> score,
          risk_level |-> IF score < 300 THEN "low" ELSE IF score < 700 THEN "medium" ELSE "high",
          factors |-> IF history > 0 THEN <<"known_phone">> ELSE <<>>,
          recommendations |-> <<>> ]

calculate_risk_score(results) ==
    LET disposable == results.email_data.validation.is_disposable
        suspicious == results.email_data.security_analysis.suspicious_patterns # <<>>
        phone_risk == results.phone_data.risk_assessment.risk_score
        sum == (IF disposable THEN 300 ELSE 0) + (IF suspicious THEN 200 ELSE 0) + phone_risk * 5
        score == Min(1000, sum)
        factors ==
            (IF disposable THEN <<"disposable_email">> ELSE <<>>)
            \o (IF suspicious THEN <<"suspicious_email_patterns">> ELSE <<>>)
            \o (IF phone_risk > 50 THEN <<"high_risk_phone">> ELSE <<>>)
        recommendations ==
            (IF disposable THEN <<"Verify identity through alternative means">> ELSE <<>>)
            \o (IF phone_risk > 50 THEN <<"Request additional phone verification">> ELSE <<>>)
    IN  [ overall_score |-> score,
          risk_level |-> determine_risk_level(score),
          factors |-> factors,
          recommendations |-> recommendations ]

\* The results dict of enrich_contact_info before any stage has filled it.
NoResults ==
    [email_data |-> NoEmailData, phone_data |-> NoPhoneData, breaches |-> 0, accounts |-> 0]

(***************************************************************************)
(* The trigger inputs explored.                                            *)
(***************************************************************************)
Victims == {"victim-a", "victim-b"}

EmailJane == <<"j","a","n","e",".","d","o","e","@","g","m","a","i","l",".","c","o","m">>
UsernameJane == <<"j","a","n","e","_","d","o","e">>
PhoneDigits == <<"+","4","4","7","7","0","0","9","0","0","1","2","3">>
PhoneGarbage == <<"n","/","a">>

MobileLib == [parses |-> TRUE, is_valid |-> TRUE, number_type |-> "mobile",
              country |-> "United Kingdom", carrier |-> "Vodafone"]

Emails == {PyNone, Str(<<>>), Str(EmailJane)}
Phones == {NoPhone, Phone(PhoneDigits, MobileLib), Phone(PhoneGarbage, NoLib)}
Usernames == {PyNone, Str(UsernameJane)}

(***************************************************************************)
(* Background runs.                                                        *)
(***************************************************************************)
\* The stage of collect_victim_osint that runs after the email block, and after
\* the phone block.
OsintAfterPhone(username) ==
    IF Truthy(username) THEN "username_osint" ELSE "correlate_accounts"
OsintAfterEmail(phone, username) ==
    IF Truthy(phone) THEN "phone_osint" ELSE OsintAfterPhone(username)
OsintFirst(email, phone, username) ==
    IF Truthy(email) THEN "email_osint" ELSE OsintAfterEmail(phone, username)

\* The same for enrich_contact_info.  The call of correlate_contact_info (lines
\* 773-774) needs a truthy email, and with one line 766 has raised before.
EnrichAfterEmail(phone) ==
    IF Truthy(phone) THEN "deep_phone_analysis" ELSE "calculate_risk_score"
EnrichFirst(email, phone) ==
    IF Truthy(email) THEN "deep_email_analysis" ELSE EnrichAfterEmail(phone)

\* A run at its launch: the results dict of lines 122-128 / 755-761.
NewRun(kind, victim_id, email, phone, username) ==
    [ kind |-> kind, victim_id |-> victim_id,
      email |-> email, phone |-> phone, username |-> username,
      pc |-> IF kind = "osint" THEN OsintFirst(email, phone, username)
             ELSE EnrichFirst(email, phone),
      ret |-> "pending",          \* "results" (the results dict) or "empty" ({})
      raised |-> "",              \* the call whose exception reached the coordinator's handler
      stored |-> "no",            \* the store step: "no" (not run), "committed", "failed"
      probed |-> {},              \* usernames looked up on the platforms so far (not in the code)
      social_media |-> <<>>,
      email_intel |-> FALSE,      \* whether results['email_intel'] is a filled dict
      related_accounts |-> <<>>,
      email_data |-> NoEmailData,
      phone_data |-> NoPhoneData,
      correlations |-> <<>>,
      risk_assessment |-> NoRiskAssessment ]

Runs == DOMAIN passes
InProgress(p) == passes[p].pc # "returned"
RunningFor(victim_id) == {p \in Runs : passes[p].victim_id = victim_id /\ InProgress(p)}

\* The coordinator's `except Exception`: log, return {}.
CoordinatorHandler(run, call) == [run EXCEPT !.pc = "returned", !.ret = "empty", !.raised = call]

\* The usernames a run looks up on the platforms: the local part of the email
\* (search_platform, line 231) and the username of the trigger, as given
\* (lines 140-142); no variant is derived from either.
email_candidates(email) == IF IsStr(email) THEN {Str(SplitHead(email.s, "@"))} ELSE {}

\* Six variants per username: the username followed by one digit.
username_candidates_expanded(username) ==
    {Str(Append(username.s, d)) : d \in {"1", "2", "3", "4", "5", "6"}}

username_candidates(username) == {username}

(***************************************************************************)
(* Trigger endpoints.                                                      *)
(***************************************************************************)
Response(endpoint, victim_id, status, run, attributes) ==
    [ endpoint |-> endpoint, victim_id |-> victim_id, status |-> status,
      run |-> run,                   \* the run launched, 0 for none
      attributes |-> attributes,     \* whether any identity attribute was truthy
      busy |-> RunningFor(victim_id) # {} ]   \* whether a run for the victim was in progress

\* POST /api/start-osint/<victim_id>.  bad_json: request.get_json() raises.
ApiStartOsint(victim_id, email, phone, username, bad_json) ==
    /\ Len(responses) < MaxPasses
    /\ IF bad_json
       THEN /\ responses' = Append(responses, Response("start-osint", victim_id, "error", 0, FALSE))
            /\ UNCHANGED passes
       ELSE /\ passes' = Append(passes, NewRun("osint", victim_id, email, phone, username))
            /\ responses' = Append(responses,
                   Response("start-osint", victim_id, "started", Len(passes) + 1,
                            Truthy(email) \/ Truthy(phone) \/ Truthy(username)))
    /\ UNCHANGED <<osint_data, email_enrichment, phone_enrichment, contact_correlation,
                   additional_data_column, pureVars>>

\* POST /api/enrich-contact/<victim_id>
ApiEnrichContact(victim_id, email, phone, bad_json) ==
    /\ Len(responses) < MaxPasses
    /\ IF bad_json
       THEN /\ responses' = Append(responses, Response("enrich-contact", victim_id, "error", 0, FALSE))
            /\ UNCHANGED passes
       ELSE /\ passes' = Append(passes, NewRun("enrich", victim_id, email, phone, PyNone))
            /\ responses' = Append(responses,
                   Response("enrich-contact", victim_id, "started", Len(passes) + 1,
                            Truthy(email) \/ Truthy(phone)))
    /\ UNCHANGED <<osint_data, email_enrichment, phone_enrichment, contact_correlation,
                   additional_data_column, pureVars>>

(***************************************************************************)
(* collect_victim_osint, stage by stage.                                   *)
(***************************************************************************)
AtStage(p, kind, pc) == p \in Runs /\ passes[p].kind = kind /\ passes[p].pc = pc

\* An INSERT that replaces what the table held: only the rows of the latest
\* transaction are kept.
InsertReplacing(table, rows) == IF rows = <<>> THEN table ELSE rows

\* The INSERT INTO statements of a committed transaction (lines 479, 494, 517,
\* 1564, 1584): every table has an AUTOINCREMENT id and no other key, so the
\* rows are added after those the table holds.
InsertInto(table, rows) == table \o rows

\* The row store_email_enrichment inserts; run is the inserting run (not a column).
EmailRow(p) ==
    LET intel == EmailIntel(passes[p].email.s)
    IN  [ victim_id |-> passes[p].victim_id, email_address |-> intel.email,
          disposable_email |-> intel.disposable, deliverable |-> intel.deliverable,
          breach_count |-> intel.breaches, run |-> p ]

\* store_email_enrichment: the INSERT names the column additional_data; the
\* exception of a failed INSERT or commit is logged and dropped.
store_email_enrichment(p, db_ok) ==
    IF additional_data_column /\ db_ok
    THEN email_enrichment' = InsertInto(email_enrichment, <<EmailRow(p)>>)
    ELSE UNCHANGED email_enrichment

\* email_osint: builds intel, stores it, returns it; a non-str email raises at
\* '@' in email and the handler returns {}.
EmailOsint(p) ==
    /\ AtStage(p, "osint", "email_osint")
    /\ IF IsStr(passes[p].email)
       THEN /\ \E db_ok \in BOOLEAN : store_email_enrichment(p, db_ok)
            /\ passes' = [passes EXCEPT ![p].email_intel = TRUE, ![p].pc = "find_social_by_email"]
       ELSE /\ UNCHANGED email_enrichment
            /\ passes' = [passes EXCEPT ![p].pc = "find_social_by_email"]
    /\ UNCHANGED <<responses, osint_data, phone_enrichment, contact_correlation,
                   additional_data_column, pureVars>>

FindSocialByEmail(p) ==
    /\ AtStage(p, "osint", "find_social_by_email")
    /\ passes' = [passes EXCEPT
           ![p].social_media = @ \o find_social_by_email(passes[p].email),
           ![p].probed = @ \cup email_candidates(passes[p].email),
           ![p].pc = OsintAfterEmail(passes[p].phone, passes[p].username)]
    /\ UNCHANGED <<responses, osint_data, email_enrichment, phone_enrichment,
                   contact_correlation, additional_data_column, pureVars>>

\* Line 137: OSINTCollector defines no phone_osint (nor find_social_by_phone);
\* the attribute lookup raises AttributeError into the coordinator's handler.
PhoneOsint(p) ==
    /\ AtStage(p, "osint", "phone_osint")
    /\ passes' = [passes EXCEPT ![p] = CoordinatorHandler(@, "phone_osint")]
    /\ UNCHANGED <<responses, osint_data, email_enrichment, phone_enrichment,
                   contact_correlation, additional_data_column, pureVars>>

UsernameOsint(p) ==
    /\ AtStage(p, "osint", "username_osint")
    /\ \E outcome \in [ReachablePlatforms -> ProbeOutcomes] :
           passes' = [passes EXCEPT
               ![p].social_media = @ \o username_osint(passes[p].username, outcome),
               ![p].probed = @ \cup username_candidates(passes[p].username),
               ![p].pc = "correlate_accounts"]
    /\ UNCHANGED <<responses, osint_data, email_enrichment, phone_enrichment,
                   contact_correlation, additional_data_column, pureVars>>

CorrelateAccounts(p) ==
    /\ AtStage(p, "osint", "correlate_accounts")
    /\ passes' = [passes EXCEPT
           ![p].related_accounts = correlate_accounts(passes[p].social_media),
           ![p].pc = "store_osint_results"]
    /\ UNCHANGED <<responses, osint_data, email_enrichment, phone_enrichment,
                   contact_correlation, additional_data_column, pureVars>>

\* The rows of one store_osint_results transaction.
OsintRows(p) ==
    [i \in 1..Len(passes[p].social_media) |->
        [ victim_id |-> passes[p].victim_id, data_type |-> "social_profile",
          platform |-> passes[p].social_media[i].platform,
          confidence_score |-> passes[p].social_media[i].confidence, run |-> p ]]
    \o
    [i \in 1..Len(passes[p].related_accounts) |->
        [ victim_id |-> passes[p].victim_id, data_type |-> "account_correlation",
          platform |-> "multiple",
          confidence_score |-> passes[p].related_accounts[i].confidence, run |-> p ]]

\* store_osint_results: one connection, one commit after all INSERTs; an
\* exception (db_ok false) leaves nothing committed and is logged and dropped.
\* collect_victim_osint then logs completion and returns results either way.
StoreOsintResults(p, db_ok) ==
    /\ AtStage(p, "osint", "store_osint_results")
    /\ osint_data' = IF db_ok THEN InsertInto(osint_data, OsintRows(p)) ELSE osint_data
    /\ passes' = [passes EXCEPT
           ![p].stored = IF db_ok THEN "committed" ELSE "failed",
           ![p].pc = "returned", ![p].ret = "results"]
    /\ UNCHANGED <<responses, email_enrichment, phone_enrichment, contact_correlation,
                   additional_data_column, pureVars>>

(***************************************************************************)
(* enrich_contact_info, stage by stage.                                    *)
(***************************************************************************)
DeepEmailAnalysis(p) ==
    /\ AtStage(p, "enrich", "deep_email_analysis")
    /\ \E valid \in BOOLEAN :
           passes' = [passes EXCEPT
               ![p].email_data = deep_email_analysis(passes[p].email, valid),
               ![p].pc = "analyze_email_domain"]
    /\ UNCHANGED <<responses, osint_data, email_enrichment, phone_enrichment,
                   contact_correlation, additional_data_column, pureVars>>

\* Line 766: ContactEnrichment defines no analyze_email_domain; the attribute
\* lookup raises AttributeError into the coordinator's handler.
AnalyzeEmailDomain(p) ==
    /\ AtStage(p, "enrich", "analyze_email_domain")
    /\ passes' = [passes EXCEPT ![p] = CoordinatorHandler(@, "analyze_email_domain")]
    /\ UNCHANGED <<responses, osint_data, email_enrichment, phone_enrichment,
                   contact_correlation, additional_data_column, pureVars>>

DeepPhoneAnalysis(p) ==
    /\ AtStage(p, "enrich", "deep_phone_analysis")
    /\ passes' = [passes EXCEPT
           ![p].phone_data = deep_phone_analysis(passes[p].phone),
           ![p].pc = "calculate_risk_score"]
    /\ UNCHANGED <<responses, osint_data, email_enrichment, phone_enrichment,
                   contact_correlation, additional_data_column, pureVars>>

CalculateRiskScore(p) ==
    /\ AtStage(p, "enrich", "calculate_risk_score")
    /\ passes' = [passes EXCEPT
           ![p].risk_assessment =
               calculate_risk_score([email_data |-> passes[p].email_data,
                                     phone_data |-> passes[p].phone_data]),
           ![p].pc = "store_enrichment_results"]
    /\ UNCHANGED <<responses, osint_data, email_enrichment, phone_enrichment,
                   contact_correlation, additional_data_column, pureVars>>

\* The rows of one store_enrichment_results transaction: the phone row when
\* phone_data is a filled dict, one row per entry of results['correlations'].
\* email_data, domain_intel and risk_assessment are written to no table.
PhoneRows(p) ==
    IF passes[p].phone_data.present
    THEN << [ victim_id |-> passes[p].victim_id,
              phone_number |-> passes[p].phone_data.original_number,
              line_type |-> passes[p].phone_data.validation.number_type,
              is_valid |-> passes[p].phone_data.validation.is_valid,
              risk_score |-> passes[p].phone_data.risk_assessment.risk_score,
              run |-> p ] >>
    ELSE <<>>

ContactCorrelationRows(p) ==
    [i \in 1..Len(passes[p].correlations) |->
        [ victim_id |-> passes[p].victim_id,
          correlation_type |-> passes[p].correlations[i].type,
          confidence_score |-> passes[p].correlations[i].confidence, run |-> p ]]

\* store_enrichment_results: one connection, one commit; an exception (db_ok
\* false) leaves nothing committed and is logged and dropped.
\* enrich_contact_info then logs completion and returns results either way.
StoreEnrichmentResults(p, db_ok) ==
    /\ AtStage(p, "enrich", "store_enrichment_results")
    /\ phone_enrichment' = IF db_ok THEN InsertInto(phone_enrichment, PhoneRows(p)) ELSE phone_enrichment
    /\ contact_correlation' =
           IF db_ok THEN InsertInto(contact_correlation, ContactCorrelationRows(p))
           ELSE contact_correlation
    /\ passes' = [passes EXCEPT
           ![p].stored = IF db_ok THEN "committed" ELSE "failed",
           ![p].pc = "returned", ![p].ret = "results"]
    /\ UNCHANGED <<responses, osint_data, email_enrichment, additional_data_column,
                   pureVars>>

(***************************************************************************)
(* Read endpoints.                                                         *)
(***************************************************************************)
\* SELECT * FROM table WHERE victim_id = ? ORDER BY timestamp DESC
RowsOf(table, victim_id) ==
    LET Mine(r) == r.victim_id = victim_id
        mine == SelectSeq(table, Mine)
    IN  [i \in 1..Len(mine) |-> mine[Len(mine) + 1 - i]]

\* GET /api/osint-results/<victim_id>
api_osint_results(victim_id) ==
    [ victim_id |-> victim_id,
      osint_profiles |-> RowsOf(osint_data, victim_id),
      email_enrichment |-> RowsOf(email_enrichment, victim_id) ]

\* Lines 1679-1692: dict(zip(columns, row)) with columns read from
\* cursor.description, which after the four SELECTs describes the last one.
\* Every record of the response is keyed by the 13 column names of
\* domain_intelligence, whatever table its row came from.  Of the keys read
\* afterwards a record has victim_id (the second column of every table) and
\* timestamp, under which sits the 13th value of the row: full_name for
\* email_enrichment (lines 74-97 with additional_data added after them; never
\* inserted, NULL), risk_score for phone_enrichment; a
\* contact_correlation row has 9 values and gets no timestamp key.  None of
\* disposable_email, breach_count, deliverable, is_valid, risk_score is a key.
PyFloat == [t |-> "float", s |-> <<>>]

EmailRecord(row) == [victim_id |-> row.victim_id, timestamp |-> PyNone, run |-> row.run]
PhoneRecord(row) == [victim_id |-> row.victim_id, timestamp |-> PyFloat, run |-> row.run]
CorrelationRecord(row) == [victim_id |-> row.victim_id, run |-> row.run]

\* record.get(key, default)
DictGet(record, key, default) == IF key \in DOMAIN record THEN record[key] ELSE default

\* round(final_score, 2) on thousandths, ties to the even hundredth
Round2(score) ==
    LET low == (score \div 10) * 10
        rest == score % 10
    IN  IF rest < 5 THEN low
        ELSE IF rest > 5 THEN low + 10
        ELSE IF (low \div 10) % 2 = 0 THEN low ELSE low + 10

\* Lines 1744-1755 and 1758-1765: what one record adds to total_score
\* (thousandths; a stored risk_score is in hundredths) and to factors.
EmailRecordRisk(record) ==
    [ score |-> (IF DictGet(record, "disposable_email", FALSE) THEN 300 ELSE 0)
                + (IF DictGet(record, "breach_count", 0) > 0 THEN 200 ELSE 0)
                + (IF ~DictGet(record, "deliverable", FALSE) THEN 100 ELSE 0),
      factors |-> (IF DictGet(record, "disposable_email", FALSE) THEN {"disposable_email"} ELSE {})
                  \cup (IF DictGet(record, "breach_count", 0) > 0 THEN {"data_breaches"} ELSE {})
                  \cup (IF ~DictGet(record, "deliverable", FALSE) THEN {"undeliverable_email"} ELSE {}) ]

PhoneRecordRisk(record) ==
    [ score |-> (IF ~DictGet(record, "is_valid", FALSE) THEN 200 ELSE 0)
                + (IF DictGet(record, "risk_score", 0) > 50
                   THEN DictGet(record, "risk_score", 0) * 3 ELSE 0),
      factors |-> (IF ~DictGet(record, "is_valid", FALSE) THEN {"invalid_phone"} ELSE {})
                  \cup (IF DictGet(record, "risk_score", 0) > 50 THEN {"high_risk_phone"} ELSE {}) ]

RECURSIVE TotalScore(_)
TotalScore(risks) ==
    IF risks = <<>> THEN 0 ELSE Head(risks).score + TotalScore(Tail(risks))

\* calculate_overall_risk_score: overall_score in thousandths, risk_factors
\* the set of list(set(factors)).
calculate_overall_risk_score(email_data, phone_data) ==
    LET risks == [i \in 1..Len(email_data) |-> EmailRecordRisk(email_data[i])]
                 \o [i \in 1..Len(phone_data) |-> PhoneRecordRisk(phone_data[i])]
        final_score == Min(1000, TotalScore(risks))
        factors == UNION {risks[i].factors : i \in 1..Len(risks)}
    IN  [ overall_score |-> Round2(final_score),
          risk_level |-> determine_risk_level(final_score),
          risk_factors |-> factors,
          factor_count |-> Cardinality(factors) ]

\* Lines 1705-1711: max() over the values under 'timestamp', '1970-01-01'
\* where a record has no such key or a list is empty.  The outer max always
\* compares with a str, so a value that is not a str raises TypeError.
Epoch == Str(<<"1","9","7","0","-","0","1","-","0","1">>)

LastUpdatedRaises(records) ==
    \E i \in 1..Len(records) : ~IsStr(DictGet(records[i], "timestamp", Epoch))

NoSummary == [present |-> FALSE, risk_assessment |-> [overall_score |-> 0, risk_level |-> "", risk_factors |-> {}, factor_count |-> 0]]

\* GET /api/enrichment-results/<victim_id>: the response; an exception in the
\* handler gives the 500 response of lines 1724-1734, with empty lists and
\* summary {}.
api_enrichment_results(victim_id) ==
    LET email_records ==
            [i \in 1..Len(RowsOf(email_enrichment, victim_id)) |->
                EmailRecord(RowsOf(email_enrichment, victim_id)[i])]
        phone_records ==
            [i \in 1..Len(RowsOf(phone_enrichment, victim_id)) |->
                PhoneRecord(RowsOf(phone_enrichment, victim_id)[i])]
        correlation_records ==
            [i \in 1..Len(RowsOf(contact_correlation, victim_id)) |->
                CorrelationRecord(RowsOf(contact_correlation, victim_id)[i])]
    IN  IF \/ LastUpdatedRaises(email_records)
           \/ LastUpdatedRaises(phone_records)
           \/ LastUpdatedRaises(correlation_records)
        THEN [ victim_id |-> victim_id, status |-> "error",
               email_enrichment |-> <<>>, phone_enrichment |-> <<>>, correlations |-> <<>>,
               summary |-> NoSummary ]
        ELSE [ victim_id |-> victim_id, status |-> "success",
               email_enrichment |-> email_records,
               phone_enrichment |-> phone_records,
               correlations |-> correlation_records,
               summary |-> [ present |-> TRUE,
                             risk_assessment |->
                                 calculate_overall_risk_score(email_records, phone_records) ] ]

\* The handlers read and write nothing.
ApiOsintResults(victim_id) ==
    /\ api_osint_results(victim_id).victim_id = victim_id
    /\ UNCHANGED vars

ApiEnrichmentResults(victim_id) ==
    /\ api_enrichment_results(victim_id).victim_id = victim_id
    /\ UNCHANGED vars

(***************************************************************************)
(* The pipeline.                                                           *)
(***************************************************************************)
\* The tables exist and are empty.  Nothing in the file calls
\* init_enhanced_db_part1, and its CREATE TABLE IF NOT EXISTS keeps a table the
\* server already has, so whether email_enrichment has the column
\* additional_data (the table of lines 73-97 has not) is the server's choice.
Init ==
    /\ passes = <<>>
    /\ responses = <<>>
    /\ osint_data = <<>>
    /\ email_enrichment = <<>>
    /\ phone_enrichment = <<>>
    /\ contact_correlation = <<>>
    /\ additional_data_column \in BOOLEAN
    /\ social_accounts = <<>>
    /\ correlations = <<>>
    /\ called = FALSE
    /\ score_results = NoResults
    /\ score_assessment = NoRiskAssessment
    /\ scored = FALSE

Trigger ==
    \E victim_id \in Victims, email \in Emails, phone \in Phones, bad_json \in BOOLEAN :
        \/ \E username \in Usernames : ApiStartOsint(victim_id, email, phone, username, bad_json)
        \/ ApiEnrichContact(victim_id, email, phone, bad_json)

Collect ==
    \E p \in 1..MaxPasses :
        \/ EmailOsint(p)
        \/ FindSocialByEmail(p)
        \/ PhoneOsint(p)
        \/ UsernameOsint(p)
        \/ CorrelateAccounts(p)
        \/ \E db_ok \in BOOLEAN : StoreOsintResults(p, db_ok)

Enrich ==
    \E p \in 1..MaxPasses :
        \/ DeepEmailAnalysis(p)
        \/ AnalyzeEmailDomain(p)
        \/ DeepPhoneAnalysis(p)
        \/ CalculateRiskScore(p)
        \/ \E db_ok \in BOOLEAN : StoreEnrichmentResults(p, db_ok)

Read ==
    \E victim_id \in Victims : ApiOsintResults(victim_id) \/ ApiEnrichmentResults(victim_id)

Next == Trigger \/ Collect \/ Enrich \/ Read

Spec == Init /\ [][Next]_vars

(***************************************************************************)
(* correlate_accounts on its own: every list of up to MaxAccounts accounts *)
(* of AccountPool.                                                         *)
(***************************************************************************)
Account(platform, username, display_name) ==
    [ platform |-> platform, username |-> username, display_name |-> display_name,
      confidence |-> 80 ]

AccountPool ==
    { Account("Twitter", Str(<<"j","o","h","n","_","d","o","e">>), Str(<<"J","o","h","n"," ","D","o","e">>)),
      Account("GitHub", Str(<<"J","o","h","n","D","o","e">>), Str(<<"j","o","h","n"," ","d","o","e">>)),
      scrape_basic_profile("Reddit", Str(<<"j","d">>), "unknown"),
      scrape_basic_profile("TikTok", Str(<<"@","j",".","d">>), "unknown"),
      scrape_basic_profile("YouTube", Str(<<"_",".">>), "unknown"),
      Account("Snapchat", Str(<<>>), Str(<<"A","l">>)),
      Account("Facebook", Missing, Str(<<"B","o","b">>)),
      Account("Pinterest", Str(<<"b","o","b","b","y">>), Str(<<"b","o","b">>)),
      Account("Instagram", Str(<<"j","d","o","e","9","9">>), Str(<<"j","o","h","n"," ","d","o","e">>)),
      Account("LinkedIn", PyInt, Str(<<"J","o","h","n"," ","D","o","e">>)) }

AccountLists == UNION {[1..n -> AccountPool] : n \in 0..MaxAccounts}

CorrelateInit ==
    /\ passes = <<>>
    /\ responses = <<>>
    /\ osint_data = <<>>
    /\ email_enrichment = <<>>
    /\ phone_enrichment = <<>>
    /\ contact_correlation = <<>>
    /\ additional_data_column = FALSE
    /\ social_accounts \in AccountLists
    /\ correlations = <<>>
    /\ called = FALSE
    /\ score_results = NoResults
    /\ score_assessment = NoRiskAssessment
    /\ scored = FALSE

CallCorrelateAccounts ==
    /\ ~called
    /\ correlations' = correlate_accounts(social_accounts)
    /\ called' = TRUE
    /\ UNCHANGED <<social_accounts, pipelineVars, scoreVars>>

CorrelateNext == CallCorrelateAccounts

SpecCorrelate == CorrelateInit /\ [][CorrelateNext]_vars

(***************************************************************************)
(* calculate_risk_score on its own: every results dict that                *)
(* deep_email_analysis and deep_phone_analysis can fill, carrying up to    *)
(* MaxBreaches breach records and MaxScoredAccounts social accounts (keys   *)
(* the function does not read).                                            *)
(***************************************************************************)
EmailShort == <<"j","d","@","g","m","a","i","l",".","c","o","m">>
EmailDisposable == <<"j","a","n","e",".","d","o","e","@","m","a","i","l","i","n","a","t","o","r",".","c","o","m">>
EmailShortDisposable == <<"j","d","@","m","a","i","l","i","n","a","t","o","r",".","c","o","m">>

EmailDoubleDot == <<"a",".",".","b","@","g","m","a","i","l",".","c","o","m">>

ScoredEmails == {EmailJane, EmailShort, EmailDisposable, EmailShortDisposable, EmailDoubleDot}

\* Verdicts of the phonenumbers library: a number is invalid exactly when its
\* type is unknown; carrier and country may each be empty.
VoipLib == [parses |-> TRUE, is_valid |-> TRUE, number_type |-> "voip",
            country |-> "", carrier |-> ""]
VoipCarrierLib == [parses |-> TRUE, is_valid |-> TRUE, number_type |-> "voip",
                   country |-> "United Kingdom", carrier |-> "Vodafone"]
FixedLineLib == [parses |-> TRUE, is_valid |-> TRUE, number_type |-> "landline",
                 country |-> "United Kingdom", carrier |-> ""]
InvalidLib == [parses |-> TRUE, is_valid |-> FALSE, number_type |-> "unknown",
               country |-> "", carrier |-> ""]
InvalidCountryLib == [parses |-> TRUE, is_valid |-> FALSE, number_type |-> "unknown",
                      country |-> "United Kingdom", carrier |-> ""]

ScoredPhones ==
    { Phone(PhoneGarbage, NoLib) } \cup
    { Phone(PhoneDigits, lib) :
          lib \in {MobileLib, VoipLib, VoipCarrierLib, FixedLineLib, InvalidLib, InvalidCountryLib} }

ScoredEmailData ==
    {NoEmailData} \cup
    {deep_email_analysis(Str(chars), valid) : chars \in ScoredEmails, valid \in BOOLEAN}

ScoredPhoneData == {NoPhoneData} \cup {deep_phone_analysis(phone) : phone \in ScoredPhones}

ScoreInit ==
    /\ passes = <<>>
    /\ responses = <<>>
    /\ osint_data = <<>>
    /\ email_enrichment = <<>>
    /\ phone_enrichment = <<>>
    /\ contact_correlation = <<>>
    /\ additional_data_column = FALSE
    /\ social_accounts = <<>>
    /\ correlations = <<>>
    /\ called = FALSE
    /\ score_results \in [email_data : ScoredEmailData, phone_data : ScoredPhoneData,
                          breaches : 0..MaxBreaches, accounts : 0..MaxScoredAccounts]
    /\ score_assessment = NoRiskAssessment
    /\ scored = FALSE

CallCalculateRiskScore ==
    /\ ~scored
    /\ score_assessment' = calculate_risk_score(score_results)
    /\ scored' = TRUE
    /\ UNCHANGED <<score_results, pipelineVars, correlateVars>>

ScoreNext == CallCalculateRiskScore

SpecScore == ScoreInit /\ [][ScoreNext]_vars

\* The list accounts reordered by the permutation perm of its indices.
IndexPermutations(n) == {f \in [1..n -> 1..n] : \A i, j \in 1..n : i # j => f[i] # f[j]}
Reordered(accounts, perm) == [i \in 1..Len(accounts) |-> accounts[perm[i]]]

\* A cluster by its rule tag, its confidence and the set of its members.
ClusterSet(clusters) ==
    { [ type |-> clusters[k].type, confidence |-> clusters[k].confidence,
        members |-> {clusters[k].accounts[i] : i \in 1..Len(clusters[k].accounts)} ]
      : k \in 1..Len(clusters) }

(***************************************************************************)
(* The pipeline with the scheduling of a run stated: the executor thread   *)
(* of a run executes collect_victim_osint / enrich_contact_info step by    *)
(* step, and every awaited call returns, but one: analyze_email_provider   *)
(* calls whois.whois(domain) with no timeout for a domain outside           *)
(* provider_mapping (line 981), and nothing in the file bounds that call.  *)
(* The HTTP probes carry timeout=5 and timeout=10 (lines 301, 319).        *)
(***************************************************************************)
provider_mapping ==
    { <<"g","m","a","i","l",".","c","o","m">>, <<"y","a","h","o","o",".","c","o","m">>,
      <<"h","o","t","m","a","i","l",".","c","o","m">>, <<"o","u","t","l","o","o","k",".","c","o","m">>,
      <<"i","c","l","o","u","d",".","c","o","m">>,
      <<"p","r","o","t","o","n","m","a","i","l",".","c","o","m">> }

\* Whether deep_email_analysis of the run's email calls whois.whois.
CallsWhois(p) ==
    /\ IsStr(passes[p].email)
    /\ Contains(passes[p].email.s, "@")
    /\ Lower(EmailDomain(passes[p].email.s)) \notin provider_mapping

\* The steps of run p that are bound to return.
RunStep(p) ==
    \/ EmailOsint(p)
    \/ FindSocialByEmail(p)
    \/ PhoneOsint(p)
    \/ UsernameOsint(p)
    \/ CorrelateAccounts(p)
    \/ \E db_ok \in BOOLEAN : StoreOsintResults(p, db_ok)
    \/ (DeepEmailAnalysis(p) /\ ~CallsWhois(p))
    \/ AnalyzeEmailDomain(p)
    \/ DeepPhoneAnalysis(p)
    \/ CalculateRiskScore(p)
    \/ \E db_ok \in BOOLEAN : StoreEnrichmentResults(p, db_ok)

LiveEmails == {PyNone, Str(EmailJane), Str(EmailDisposable)}
LivePhones == {NoPhone, Phone(PhoneDigits, MobileLib)}
\* data.get('username') is any JSON value: a number as well as a string.
LiveUsernames == Usernames \cup {PyInt}

\* Each run has an executor and an event loop of its own (lines 604-612), so
\* the progress of a run is followed with no other run launched.
LiveTrigger ==
    /\ passes = <<>>
    /\ \E victim_id \in Victims, email \in LiveEmails, phone \in LivePhones, bad_json \in BOOLEAN :
           \/ \E username \in LiveUsernames : ApiStartOsint(victim_id, email, phone, username, bad_json)
           \/ ApiEnrichContact(victim_id, email, phone, bad_json)

LiveNext == LiveTrigger \/ Collect \/ Enrich \/ Read

\* Runs are finite, so fairness of the steps taken together gives each run its steps.
SpecLive == Init /\ [][LiveNext]_vars /\ WF_vars(\E p \in 1..MaxPasses : RunStep(p))

(***************************************************************************)
(* Claims about the pipeline (Spec).                                       *)
(***************************************************************************)
\* C1: single-flight.  In every reachable state at most one run per victim is
\* in progress.
C1_SingleFlight == \A v \in Victims : Cardinality(RunningFor(v)) <= 1

\* C2: idempotency.  A trigger that arrives while a run for the same victim is
\* in progress answers already_running and launches no second run.
C2_Idempotency ==
    \A r \in DOMAIN responses :
        (responses[r].busy /\ responses[r].status # "error")
            => (responses[r].status = "already_running" /\ responses[r].run = 0)

\* C3: a trigger whose email, phone and username are all absent or empty
\* answers skipped_no_attributes and launches no run.
C3_NoQueryableAttributes ==
    \A r \in DOMAIN responses :
        (~responses[r].attributes /\ responses[r].status # "error")
            => (responses[r].status = "skipped_no_attributes" /\ responses[r].run = 0)

\* C4: an adapter call that raises is non-fatal.  Every run that has returned
\* has gone through its store step and returned its results, not {}.
C4_AdapterFailureNonFatal ==
    \A p \in Runs :
        passes[p].pc = "returned" => (passes[p].ret = "results" /\ passes[p].stored # "no")

\* What a returned run hands back: results['related_accounts'] and
\* results['risk_assessment'], which {} does not have.
ReturnedClusters(p) == IF passes[p].ret = "results" THEN passes[p].related_accounts ELSE <<>>
ReturnedAssessment(p) == IF passes[p].ret = "results" THEN passes[p].risk_assessment ELSE NoRiskAssessment

\* The same run with the adapter that raised left out: collect_victim_osint
\* without its phone block (the username probes answering as `outcome`),
\* enrich_contact_info without analyze_email_domain.
ClustersWithoutPhoneAdapter(p, outcome) ==
    correlate_accounts(
        passes[p].social_media
        \o (IF Truthy(passes[p].username) THEN username_osint(passes[p].username, outcome) ELSE <<>>))

AssessmentWithoutDomainAdapter(p) ==
    calculate_risk_score(
        [ email_data |-> passes[p].email_data,
          phone_data |-> IF Truthy(passes[p].phone) THEN deep_phone_analysis(passes[p].phone)
                         ELSE NoPhoneData ])

\* C5: partial-failure equivalence.  A run in which an adapter raised returns
\* the clusters and the assessment of the run without that adapter.
C5_PartialFailureEquivalence ==
    \A p \in Runs :
        (passes[p].pc = "returned" /\ passes[p].raised # "") =>
            IF passes[p].kind = "osint"
            THEN \E outcome \in [ReachablePlatforms -> ProbeOutcomes] :
                     ReturnedClusters(p) = ClustersWithoutPhoneAdapter(p, outcome)
            ELSE ReturnedAssessment(p) = AssessmentWithoutDomainAdapter(p)

\* C6: a run whose store step failed does not end as completed with results.
C6_PersistenceFailureSurfaced ==
    \A p \in Runs : passes[p].stored = "failed" => passes[p].ret # "results"

StoreTables == <<osint_data, email_enrichment, phone_enrichment, contact_correlation>>

C9_ClusterSymmetry ==
    called =>
        \A perm \in IndexPermutations(Len(social_accounts)) :
            ClusterSet(correlate_accounts(Reordered(social_accounts, perm)))
                = ClusterSet(correlations)

\* A call that returned clusters under both rules, for a list whose reordering
\* changes the returned list itself (the order of the clusters or of their members).
C9_Witness ==
    /\ called
    /\ \E k \in 1..Len(correlations) : correlations[k].type = "username_similarity"
    /\ \E k \in 1..Len(correlations) : correlations[k].type = "display_name_match"
    /\ \E perm \in IndexPermutations(Len(social_accounts)) :
           correlate_accounts(Reordered(social_accounts, perm)) # correlations

(***************************************************************************)
(* Claims about the two pure stages as the runs use them (Spec).           *)
(***************************************************************************)
PastStage(p, kind, stage) ==
    /\ passes[p].kind = kind
    /\ passes[p].ret # "empty"
    /\ passes[p].pc \in {stage, "returned"}

C11_ScoreInUnitInterval ==
    scored => (score_assessment.overall_score >= 0 /\ score_assessment.overall_score <= 1000)

\* A call on a disposable, suspicious address with a risky phone: the largest
\* sum the three terms reach.
C11_Witness ==
    /\ scored
    /\ score_results.email_data.validation.is_disposable
    /\ score_results.email_data.security_analysis.suspicious_patterns # <<>>
    /\ score_results.phone_data.risk_assessment.risk_score > 0
    /\ score_assessment.overall_score > 0

\* C12: score monotonicity.  With the email and phone data fixed, the results
\* carrying one more breach record never score lower than the results scored.
C12_BreachMonotonicity ==
    scored =>
        calculate_risk_score([score_results EXCEPT !.breaches = @ + 1]).overall_score
            >= score_assessment.overall_score

\* A call that scored above zero on results already carrying breach records.
C12_Witness ==
    /\ scored
    /\ score_results.breaches > 0
    /\ score_assessment.overall_score > 0
    /\ score_assessment.overall_score < 1000

\* C13: the risk level follows the thresholds.  Where no critical override
\* applies (at most 3 breach records), a score below 0.30 is low, from 0.30 and
\* below 0.70 medium, from 0.70 high; 0.30 itself is medium and 0.70 itself high.
C13_RiskLevelThresholds ==
    (scored /\ score_results.breaches <= 3) =>
        LET score == score_assessment.overall_score
            level == score_assessment.risk_level
        IN  /\ score < 300 => level = "low"
            /\ (score >= 300 /\ score < 700) => level = "medium"
            /\ score >= 700 => level = "high"
            /\ score = 300 => level = "medium"
            /\ score = 700 => level = "high"

\* A call whose score is exactly 0.70, without breach records.
C13_Witness ==
    /\ scored
    /\ score_results.breaches = 0
    /\ score_assessment.overall_score = 700
    /\ score_assessment.risk_level = "high"

\* C14: critical override.  Results carrying more than 3 breach records are
\* given the risk level critical, whatever the score.
C14_CriticalOverride ==
    (scored /\ score_results.breaches > 3) => score_assessment.risk_level = "critical"

(***************************************************************************)
(* Claims about the fan-out and the scheduling of a run (Spec, SpecLive).  *)
(***************************************************************************)
\* C15: username candidates are bounded.  In every run the distinct usernames
\* looked up on the platforms number at most 5.
C15_UsernameCandidatesBounded == \A p \in Runs : Cardinality(passes[p].probed) <= 5

\* A run that looked up both the local part of its email and its username.
C15_Witness ==
    \E p \in Runs :
        /\ passes[p].pc = "returned"
        /\ passes[p].username \in passes[p].probed
        /\ Cardinality(passes[p].probed) > 1

\* C16: per-call isolation of slow calls.  While an adapter call of a run has
\* not returned, the other adapter calls of the run can start: with the email
\* calls outstanding the username probes can be made (collect_victim_osint),
\* with the email analysis outstanding the phone analysis can be made
\* (enrich_contact_info).
C16_SlowCallIsolation ==
    \A p \in Runs :
        /\ ( /\ passes[p].kind = "osint"
             /\ passes[p].pc \in {"email_osint", "find_social_by_email"}
             /\ ~Truthy(passes[p].phone)
             /\ Truthy(passes[p].username) )
               => ENABLED UsernameOsint(p)
        /\ ( /\ passes[p].kind = "enrich"
             /\ passes[p].pc = "deep_email_analysis"
             /\ Truthy(passes[p].phone) )
               => ENABLED DeepPhoneAnalysis(p)

\* C17: deadline and termination.  Every run that was started eventually has
\* gone through its persistence step (after correlation or scoring) and has
\* returned.
C17_DeadlineTermination ==
    \A p \in 1..MaxPasses :
        [](p \in Runs => <>(p \in Runs /\ passes[p].pc = "returned" /\ passes[p].stored # "no"))

(***************************************************************************)
(* Claims about the two rules of correlate_accounts (SpecCorrelate).  They *)
(* are stated for lists whose usernames and display names are strings or   *)
(* absent; the rules are written here from their description, not from the *)
(* operators above.                                                        *)
(***************************************************************************)
Separators == {"@", "_", ".", "-"}

\* A username lower-cased, with every '@', '_', '.', '-' removed.
NormalizedUsername(account) ==
    LET Kept(c) == c \notin Separators
    IN  SelectSeq(Lower(GetOr(account.username).s), Kept)

\* A display name lower-cased.
LoweredDisplayName(account) == Lower(GetOr(account.display_name).s)

\* The clusters returned under one rule, by their index in the returned list.
ClustersTagged(type) == {k \in 1..Len(correlations) : correlations[k].type = type}

WellTyped == called /\ ~CorrelateRaises(social_accounts)

\* C18: rule A.  For each normalized username shared by two or more accounts of
\* the list exactly one username_similarity cluster is returned, with confidence
\* 0.9 and exactly those accounts as members; a normalized username held by one
\* account gives no cluster, and no other username_similarity cluster is returned.
C18_RuleA ==
    WellTyped =>
        LET forms == {NormalizedUsername(social_accounts[i]) : i \in 1..Len(social_accounts)}
            Members(f) ==
                LET Shares(a) == NormalizedUsername(a) = f
                IN  SelectSeq(social_accounts, Shares)
            ClustersFor(f) ==
                {k \in ClustersTagged("username_similarity") : correlations[k].accounts = Members(f)}
        IN  /\ \A f \in forms :
                IF Len(Members(f)) >= 2
                THEN /\ Cardinality(ClustersFor(f)) = 1
                     /\ \A k \in ClustersFor(f) : correlations[k].confidence = 90
                ELSE ClustersFor(f) = {}
            /\ \A k \in ClustersTagged("username_similarity") :
                   \E f \in forms : Len(Members(f)) >= 2 /\ k \in ClustersFor(f)

JohnUnderscoreDoe == Str(<<"j","o","h","n","_","d","o","e">>)
JohnDoeCamel == Str(<<"J","o","h","n","D","o","e">>)

\* john_doe and JohnDoe in a list with a third account of another username:
\* one username_similarity cluster, of the two.
C18_Witness ==
    /\ WellTyped
    /\ Len(social_accounts) > 2
    /\ \E i, j \in 1..Len(social_accounts) :
           /\ social_accounts[i].username = JohnUnderscoreDoe
           /\ social_accounts[j].username = JohnDoeCamel
           /\ \E k \in ClustersTagged("username_similarity") :
                  correlations[k].accounts = <<social_accounts[i], social_accounts[j]>>
    /\ Cardinality(ClustersTagged("username_similarity")) = 1

\* C19: rule B.  For each lower-cased display name longer than 3 characters
\* shared by two or more accounts of the list exactly one display_name_match
\* cluster is returned, with confidence 0.8 and exactly those accounts as
\* members; a name of 3 characters or fewer, or held by one account, gives no
\* cluster, and no other display_name_match cluster is returned.
C19_RuleB ==
    WellTyped =>
        LET names == {LoweredDisplayName(social_accounts[i]) : i \in 1..Len(social_accounts)}
            Members(n) ==
                LET Shares(a) == LoweredDisplayName(a) = n
                IN  SelectSeq(social_accounts, Shares)
            ClustersFor(n) ==
                {k \in ClustersTagged("display_name_match") : correlations[k].accounts = Members(n)}
        IN  /\ \A n \in names :
                IF Len(n) > 3 /\ Len(Members(n)) >= 2
                THEN /\ Cardinality(ClustersFor(n)) = 1
                     /\ \A k \in ClustersFor(n) : correlations[k].confidence = 80
                ELSE ClustersFor(n) = {}
            /\ \A k \in ClustersTagged("display_name_match") :
                   \E n \in names : Len(n) > 3 /\ Len(Members(n)) >= 2 /\ k \in ClustersFor(n)

\* Two accounts sharing a display name of 3 characters and a third with a
\* longer name of its own: no display_name_match cluster.
C19_Witness ==
    /\ WellTyped
    /\ \E i, j \in 1..Len(social_accounts) :
           /\ i # j
           /\ social_accounts[i] # social_accounts[j]
           /\ LoweredDisplayName(social_accounts[i]) = LoweredDisplayName(social_accounts[j])
           /\ Len(LoweredDisplayName(social_accounts[i])) = 3
    /\ \E i \in 1..Len(social_accounts) : Len(LoweredDisplayName(social_accounts[i])) > 3
    /\ ClustersTagged("display_name_match") = {}

\* The accounts of a cluster, as a set.
MembersOf(k) == {correlations[k].accounts[i] : i \in 1..Len(correlations[k].accounts)}

\* C20: the rules are independent and never merged.  Two accounts that share a
\* normalized username are together in a username_similarity cluster, two that
\* share a display name longer than 3 characters are together in a
\* display_name_match cluster, whether or not the other rule matches them too;
\* and the members of a cluster all match under the cluster's own rule.
C20_RulesIndependent ==
    WellTyped =>
        /\ \A i, j \in 1..Len(social_accounts) :
               LET a == social_accounts[i]
                   b == social_accounts[j]
               IN  /\ (i # j /\ NormalizedUsername(a) = NormalizedUsername(b)) =>
                          \E k \in ClustersTagged("username_similarity") : {a, b} \subseteq MembersOf(k)
                   /\ ( /\ i # j
                        /\ LoweredDisplayName(a) = LoweredDisplayName(b)
                        /\ Len(LoweredDisplayName(a)) > 3 ) =>
                          \E k \in ClustersTagged("display_name_match") : {a, b} \subseteq MembersOf(k)
        /\ \A k \in ClustersTagged("username_similarity") :
               \A a, b \in MembersOf(k) : NormalizedUsername(a) = NormalizedUsername(b)
        /\ \A k \in ClustersTagged("display_name_match") :
               \A a, b \in MembersOf(k) : LoweredDisplayName(a) = LoweredDisplayName(b)
        /\ ClustersTagged("username_similarity") \cup ClustersTagged("display_name_match")
               = 1..Len(correlations)

\* Two accounts matched by both rules and a third matched with them by display
\* name only: a username_similarity cluster of the two and a display_name_match
\* cluster of the three.
C20_Witness ==
    /\ WellTyped
    /\ \E k \in ClustersTagged("username_similarity"), m \in ClustersTagged("display_name_match") :
           /\ MembersOf(k) \subseteq MembersOf(m)
           /\ MembersOf(k) # MembersOf(m)
           /\ Cardinality(MembersOf(k)) = 2

\* The reference formula of the scoring section, in thousandths: a base for
\* any social account, a capped term per account, a capped term per breach,
\* the two email terms and half the phone sub-score, clamped to [0, 1].
ReferenceScore(results) ==
    LET sum == (IF results.accounts > 0 THEN 200 ELSE 0)
               + Min(80 * results.accounts, 400)
               + Min(150 * results.breaches, 400)
               + (IF results.email_data.validation.is_disposable THEN 300 ELSE 0)
               + (IF results.email_data.security_analysis.suspicious_patterns # <<>> THEN 200 ELSE 0)
               + 5 * results.phone_data.risk_assessment.risk_score
    IN  Max(0, Min(1000, sum))

\* C21: the overall score equals the reference formula: clamp to [0, 1] of
\* 0.20 if a social account was found + min(0.08 per account, 0.40) +
\* min(0.15 per breach, 0.40) + 0.30 if disposable + 0.20 if suspicious +
\* half the phone sub-score; one social account alone scores 0.28.
C21_ReferenceFormula ==
    scored => score_assessment.overall_score = ReferenceScore(score_results)

UnparsablePhoneRuns ==
    {p \in Runs : /\ passes[p].kind = "enrich"
                  /\ passes[p].phone.t = "str"
                  /\ ~passes[p].phone.lib.parses
                  /\ passes[p].raised = ""
                  /\ passes[p].pc \in {"calculate_risk_score", "store_enrichment_results", "returned"}}

\* C23: unparsable phone number.  The run does not abort; its phone analysis
\* records the number as invalid with no trust indicator and a sub-score of
\* 0.3, the overall score receives 0.15 from it, and the run reaches its store
\* step.
C23_UnparsablePhone ==
    \A p \in UnparsablePhoneRuns :
        /\ passes[p].phone_data.present
        /\ ~passes[p].phone_data.validation.is_valid
        /\ passes[p].phone_data.risk_assessment.trust_indicators = <<>>
        /\ passes[p].phone_data.risk_assessment.risk_score = 30
        /\ passes[p].pc = "returned" =>
               /\ passes[p].stored # "no"
               /\ passes[p].risk_assessment.overall_score = 150

\* The local part of the address analysed, and the classifier of the
\* suspicious-pattern rule: two or more consecutive separators, only digits,
\* more than 30 characters, fewer than 3, or high entropy without a
\* dictionary word.
LocalPart(email_data) == SplitHead(email_data.email, "@")

ConsecutiveSeparators(username) ==
    \E i \in 1..(Len(username) - 1) :
        username[i] \in Separators /\ username[i + 1] \in Separators

FlaggedByRule(username) ==
    \/ ConsecutiveSeparators(username)
    \/ (Len(username) > 0 /\ \A i \in 1..Len(username) : username[i] \in Digits)
    \/ Len(username) > 30
    \/ Len(username) < 3
    \/ (EntropyAboveFour(username) /\ count_dictionary_words(username) = 0)

\* C24: the suspicious-email classifier.  The list of suspicious patterns of an
\* analysed address is non-empty exactly when its local part has two or more
\* consecutive separators, or is all digits, or is longer than 30 characters,
\* or shorter than 3, or has high entropy and no dictionary word; a..b is
\* flagged.
C24_SuspiciousClassifier ==
    (scored /\ score_results.email_data.present) =>
        ( score_results.email_data.security_analysis.suspicious_patterns # <<>>
          <=> FlaggedByRule(LocalPart(score_results.email_data)) )

\* C26: the phone sub-score never exceeds 0.5, so no assessment carries the
\* factor high_risk_phone or the recommendation to request additional phone
\* verification, and the overall score never exceeds 0.75.
C26_PhoneNeverHighRisk ==
    scored =>
        /\ score_results.phone_data.risk_assessment.risk_score <= 50
        /\ \A i \in 1..Len(score_assessment.factors) :
               score_assessment.factors[i] # "high_risk_phone"
        /\ \A i \in 1..Len(score_assessment.recommendations) :
               score_assessment.recommendations[i] # "Request additional phone verification"
        /\ score_assessment.overall_score <= 750

\* A call on the riskiest phone analysis (invalid, type unknown, no carrier, no
\* country) with a disposable, suspicious address: every factor but the phone's.
C26_Witness ==
    /\ scored
    /\ score_results.phone_data.present
    /\ ~score_results.phone_data.validation.is_valid
    /\ score_results.phone_data.validation.number_type = "unknown"
    /\ score_results.phone_data.risk_assessment.trust_indicators = <<>>
    /\ score_assessment.factors = <<"disposable_email", "suspicious_email_patterns">>
    /\ score_assessment.recommendations = <<"Verify identity through alternative means">>
    /\ score_assessment.overall_score >= 700

\* The records a table held are still its first records, unchanged.
KeepsRecords(old, new) == Len(old) <= Len(new) /\ SubSeq(new, 1, Len(old)) = old

\* C25: history is append-only.  No step of any run updates or deletes a
\* record of osint_data, email_enrichment, phone_enrichment or
\* contact_correlation written before it; a step only adds records.
C25_AppendOnly ==
    [][ /\ KeepsRecords(osint_data, osint_data')
        /\ KeepsRecords(email_enrichment, email_enrichment')
        /\ KeepsRecords(phone_enrichment, phone_enrichment')
        /\ KeepsRecords(contact_correlation, contact_correlation') ]_vars

\* A later run has stored records for a subject whose earlier run's records
\* are in the same table.
C25_Witness ==
    \/ \E i, j \in 1..Len(osint_data) :
           /\ i < j
           /\ osint_data[i].victim_id = osint_data[j].victim_id
           /\ osint_data[i].run < osint_data[j].run
    \/ \E i, j \in 1..Len(phone_enrichment) :
           /\ i < j
           /\ phone_enrichment[i].victim_id = phone_enrichment[j].victim_id
           /\ phone_enrichment[i].run < phone_enrichment[j].run

\* The accounts of the list whose normalized username is empty: no username,
\* an empty one, or one made of separators only.
NamelessAccounts ==
    LET Nameless(a) == NormalizedUsername(a) = <<>>
    IN  SelectSeq(social_accounts, Nameless)

\* C27: no minimum length applies to a normalized username.  Two or more
\* accounts of the list whose usernames are missing, empty or made of
\* separators only are returned as one username_similarity cluster with
\* confidence 0.9 and the empty string as its key.
C27_EmptyUsernameCluster ==
    (WellTyped /\ Len(NamelessAccounts) >= 2) =>
        \E k \in ClustersTagged("username_similarity") :
            /\ correlations[k].accounts = NamelessAccounts
            /\ correlations[k].confidence = 90
            /\ correlations[k].description = <<>>

\* An account without a username and one whose username is separators only,
\* with different display names, in the cluster of the empty key.
C27_Witness ==
    /\ WellTyped
    /\ \E i, j \in 1..Len(social_accounts) :
           /\ social_accounts[i].username = Missing
           /\ IsStr(social_accounts[j].username)
           /\ Len(social_accounts[j].username.s) > 0
           /\ LoweredDisplayName(social_accounts[i]) # LoweredDisplayName(social_accounts[j])
           /\ \E k \in ClustersTagged("username_similarity") :
                  /\ correlations[k].description = <<>>
                  /\ {social_accounts[i], social_accounts[j]} \subseteq MembersOf(k)

\* The accounts of the list that are profiles scraped without an extractable
\* display name.
UnnamedProfiles ==
    LET Unnamed(a) == a = scrape_basic_profile(a.platform, a.username, "unknown")
    IN  SelectSeq(social_accounts, Unnamed)

\* C28: the placeholder of a display name that could not be extracted counts
\* as a real name.  Two or more profiles scraped without an extractable
\* display name are together in a display_name_match cluster of confidence
\* 0.8, whatever their usernames.
C28_UnknownPlaceholder ==
    (WellTyped /\ Len(UnnamedProfiles) >= 2) =>
        \E k \in ClustersTagged("display_name_match") :
            /\ \A i \in 1..Len(UnnamedProfiles) : UnnamedProfiles[i] \in MembersOf(k)
            /\ correlations[k].confidence = 80

\* Two profiles without an extractable display name and with different
\* normalized usernames: no username_similarity cluster, one
\* display_name_match cluster holding both.
C28_Witness ==
    /\ WellTyped
    /\ Len(UnnamedProfiles) = 2
    /\ NormalizedUsername(UnnamedProfiles[1]) # NormalizedUsername(UnnamedProfiles[2])
    /\ ClustersTagged("username_similarity") = {}
    /\ \E k \in ClustersTagged("display_name_match") :
           correlations[k].accounts = UnnamedProfiles

\* C29: the assessment of /api/enrichment-results.  For every subject the
\* response carries an assessment, which is calculate_overall_risk_score over
\* every email and phone record stored for the subject by all runs, with an
\* overall score of at most 1.0.
C29_ReadSideAssessment ==
    \A victim_id \in Victims :
        LET view == api_enrichment_results(victim_id)
        IN  /\ view.summary.present
            /\ Len(view.email_enrichment) = Len(RowsOf(email_enrichment, victim_id))
            /\ Len(view.phone_enrichment) = Len(RowsOf(phone_enrichment, victim_id))
            /\ view.summary.risk_assessment
                   = calculate_overall_risk_score(view.email_enrichment, view.phone_enrichment)
            /\ view.summary.risk_assessment.overall_score <= 1000

\* An account whose username or display name is present and not a string.
IllTyped(account) ==
    \/ account.username.t \notin {"str", "missing"}
    \/ account.display_name.t \notin {"str", "missing"}

\* The collection runs that are past correlate_accounts with an ill-typed
\* account among those found.
IllTypedRuns ==
    {p \in Runs : /\ passes[p].kind = "osint"
                  /\ passes[p].raised = ""
                  /\ passes[p].pc \in {"store_osint_results", "returned"}
                  /\ \E i \in 1..Len(passes[p].social_media) : IllTyped(passes[p].social_media[i])}

\* C30: correlate_accounts is all-or-nothing on error.  When one account's
\* username or display name is not a string the run holds no cluster at all,
\* also none of those its other accounts form, and the run goes on to its
\* store step and returns its results.
C30_AllOrNothing ==
    \A p \in IllTypedRuns :
        /\ passes[p].related_accounts = <<>>
        /\ passes[p].pc = "returned" => (passes[p].stored # "no" /\ passes[p].ret = "results")

\* A returned run whose accounts found by email share a normalized username,
\* with a profile of a numeric username among them: stored, and no cluster.
C30_Witness ==
    \E p \in IllTypedRuns :
        /\ passes[p].pc = "returned"
        /\ passes[p].stored = "committed"
        /\ passes[p].related_accounts = <<>>
        /\ \E i, j \in 1..Len(passes[p].social_media) :
               /\ i # j
               /\ ~IllTyped(passes[p].social_media[i])
               /\ ~IllTyped(passes[p].social_media[j])
               /\ NormalizedUsername(passes[p].social_media[i])
                      = NormalizedUsername(passes[p].social_media[j])

====
